---- MODULE Spec2Model ----
(***************************************************************************)
(* Model of the markdown -> DOCX converter (docxConverter.ts): the inline  *)
(* span parser processFormattedText, the image resolver fetchImage, the    *)
(* list materializer processListItems and the token loop of                *)
(* convertMarkdownToDocx.                                                  *)
(*                                                                         *)
(* Strings are sequences of one-character strings; positions are 1-based   *)
(* in the model and 0-based in the source (index i in JS is i+1 here).     *)
(***************************************************************************)
EXTENDS Integers, Sequences, FiniteSets, TLC

VARIABLES
    pc,                 \* position of the running call
    tokens,             \* marked.lexer(markdownContent)
    pos,                \* index of the token the for-of loop is at
    children,           \* const children: Paragraph[]
    lastTokenType,      \* let lastTokenType: string | null
    consecutiveBreaks,  \* let consecutiveBreaks
    imageData,          \* what the awaited fetchImage(...) settles to
    inflight,           \* fetch() requests issued and not yet settled
    fetchLog,           \* every URL handed to fetch(), in call order
    imageType,          \* local imageType of fetchImage while the body is read
    response,           \* what fetch() and arrayBuffer() settled with
    text,               \* argument of processFormattedText
    runs,               \* value returned by processFormattedText
    listToken,          \* the Tokens.List handed to processListItems
    calls,              \* the locals of each call of a batch of conversions
    docxBuffer,         \* what await convertMarkdownToDocx(...) gives the caller
    req,                \* the VercelRequest: method, body, headers.authorization
    results,            \* the promises of requests.map(async ...), in request order
    res                 \* what the handler has sent on the VercelResponse

vars == <<pc, tokens, pos, children, lastTokenType, consecutiveBreaks,
          imageData, inflight, fetchLog, imageType, response, text, runs,
          listToken, calls, docxBuffer, req, results, res>>

(***************************************************************************)
(* Bounds of the model.                                                    *)
(***************************************************************************)
MaxLen == 5        \* longest text over the marker alphabet
MaxLinkLen == 6    \* longest text over the link alphabet
MaxTokens == 3     \* longest token stream
MaxItems == 4      \* most list items (all depths) in one list token

(***************************************************************************)
(* JavaScript string primitives.                                           *)
(***************************************************************************)
Min(a, b) == IF a < b THEN a ELSE b
Max(a, b) == IF a > b THEN a ELSE b

\* a relative index of slice() resolved against length n
SliceIndex(k, n) == IF k < 0 THEN Max(n + k, 0) ELSE Min(k, n)

SliceBetween(s, from, to) == IF from >= to THEN <<>> ELSE SubSeq(s, from + 1, to)

\* String.prototype.slice(begin, end) with 0-based, possibly negative, indices
JsSlice(s, b, e) == SliceBetween(s, SliceIndex(b, Len(s)), SliceIndex(e, Len(s)))

\* does d occur in s at (1-based) position i
OccursAt(s, d, i) ==
    /\ i >= 1
    /\ i + Len(d) - 1 <= Len(s)
    /\ \A k \in 1..Len(d) : s[i + k - 1] = d[k]

StartsWith(s, d) == OccursAt(s, d, 1)
EndsWith(s, d) == OccursAt(s, d, Len(s) - Len(d) + 1)
Includes(s, d) == \E i \in 1..(Len(s) + 1) : OccursAt(s, d, i)

\* the least element of a set of positions, 0 when the set is empty
LeastOrZero(S) == IF S = {} THEN 0 ELSE CHOOSE i \in S : \A j \in S : i <= j

\* first position >= from at which d occurs, 0 when there is none
FirstOccurrence(s, d, from) ==
    LeastOrZero({i \in from..Len(s) : OccursAt(s, d, i)})

UpperCase == [c \in {"S", "V", "G", "P", "N", "J"} |->
                CASE c = "S" -> "s" [] c = "V" -> "v" [] c = "G" -> "g"
                  [] c = "P" -> "p" [] c = "N" -> "n" [] c = "J" -> "j"]

ToLowerCase(s) ==
    [i \in 1..Len(s) |-> IF s[i] \in DOMAIN UpperCase THEN UpperCase[s[i]] ELSE s[i]]

NL == "\n"
\* the grave accent U+0060 that delimits inline code
Backtick == "U+0060"

(***************************************************************************)
(* processFormattedText: the regular expression                           *)
(* of source line 219: link | ~~.*?~~ | \*\*.*?\*\* | \*.*?\* | code   *)
(* A match is [index, part, g2, g3]; NoMatch stands for exec() === null.   *)
(***************************************************************************)
NoMatch == [index |-> 0, part |-> <<>>, g2 |-> <<>>, g3 |-> <<>>]

\* the link alternative at position i, given the first "]" after the "["
\* and the first ")" after the "(": both classes are negated, so each group
\* ends at the first occurrence of its closing character and is not empty
LinkParts(s, i, close, paren) ==
    IF /\ OccursAt(s, <<"[">>, i)
       /\ close >= i + 2
       /\ OccursAt(s, <<"(">>, close + 1)
       /\ paren >= close + 3
    THEN [index |-> i, part |-> SubSeq(s, i, paren),
          g2 |-> SubSeq(s, i + 1, close - 1),
          g3 |-> SubSeq(s, close + 2, paren - 1)]
    ELSE NoMatch

LinkClosedAt(s, i, close) ==
    LinkParts(s, i, close, FirstOccurrence(s, <<")">>, close + 2))

\* \[([^\]]+)\]\(([^)]+)\) tried at position i
LinkAt(s, i) == LinkClosedAt(s, i, FirstOccurrence(s, <<"]">>, i + 1))

\* d.*?d at position i, given the first closing d: the lazy body stops there,
\* and the dot matches no line terminator
DelimitedParts(s, d, i, close) ==
    IF /\ OccursAt(s, d, i)
       /\ close > 0
       /\ \A k \in (i + Len(d))..(close - 1) : s[k] # NL
    THEN [index |-> i, part |-> SubSeq(s, i, close + Len(d) - 1),
          g2 |-> <<>>, g3 |-> <<>>]
    ELSE NoMatch

\* d.*?d tried at position i
DelimitedAt(s, d, i) == DelimitedParts(s, d, i, FirstOccurrence(s, d, i + Len(d)))

\* the alternatives in the order the pattern lists them
Alternatives(s, i) ==
    << LinkAt(s, i),
       DelimitedAt(s, <<"~", "~">>, i),
       DelimitedAt(s, <<"*", "*">>, i),
       DelimitedAt(s, <<"*">>, i),
       DelimitedAt(s, <<Backtick>>, i) >>

\* the first alternative that matches, NoMatch when none does
FirstMatch(alts) ==
    IF \A k \in DOMAIN alts : alts[k] = NoMatch THEN NoMatch
    ELSE alts[LeastOrZero({k \in DOMAIN alts : alts[k] # NoMatch})]

\* the pattern tried at position i
MatchAt(s, i) == IF i = 0 THEN NoMatch ELSE FirstMatch(Alternatives(s, i))

\* regex.exec(text) with regex.lastIndex = from - 1: leftmost position first
Exec(s, from) ==
    MatchAt(s, LeastOrZero({i \in from..Len(s) : MatchAt(s, i) # NoMatch}))

(***************************************************************************)
(* Spans (TextRun / ExternalHyperlink).                                    *)
(***************************************************************************)
Span(kind, txt, url) == [kind |-> kind, text |-> txt, url |-> url]
PlainText(txt) == Span("PlainText", txt, <<>>)

\* the if / else-if chain on one match: the runs it pushes
MatchRuns(m) ==
    IF m.g2 # <<>> /\ m.g3 # <<>>
    THEN << Span("Hyperlink", m.g2, m.g3) >>
    ELSE IF StartsWith(m.part, <<"~", "~">>) /\ EndsWith(m.part, <<"~", "~">>)
    THEN << Span("Strikethrough", JsSlice(m.part, 2, -2), <<>>) >>
    ELSE IF StartsWith(m.part, <<"*", "*">>) /\ EndsWith(m.part, <<"*", "*">>)
    THEN << Span("Bold", JsSlice(m.part, 2, -2), <<>>) >>
    ELSE IF /\ StartsWith(m.part, <<"*">>) /\ EndsWith(m.part, <<"*">>)
            /\ ~StartsWith(m.part, <<"*", "*">>)
    THEN << Span("Italic", JsSlice(m.part, 1, -1), <<>>) >>
    ELSE IF StartsWith(m.part, <<Backtick>>) /\ EndsWith(m.part, <<Backtick>>)
    THEN << Span("InlineCode", JsSlice(m.part, 1, -1), <<>>) >>
    ELSE <<>>

\* faulty variant of BeforeRuns: the slice starts at 0 instead of lastIndex
BeforeRunsFromStart(s, lastIndex, m) ==
    IF m.index - 1 > lastIndex /\ JsSlice(s, 0, m.index - 1) # <<>>
    THEN << PlainText(JsSlice(s, 0, m.index - 1)) >>
    ELSE <<>>

\* text.slice(lastIndex, index) pushed when non-empty (lastIndex is 0-based)
BeforeRuns(s, lastIndex, m) ==
    IF m.index - 1 > lastIndex /\ JsSlice(s, lastIndex, m.index - 1) # <<>>
    THEN << PlainText(JsSlice(s, lastIndex, m.index - 1)) >>
    ELSE <<>>

\* the remaining text after the last match
RemainingRuns(s, lastIndex) ==
    IF lastIndex < Len(s) /\ JsSlice(s, lastIndex, Len(s)) # <<>>
    THEN << PlainText(JsSlice(s, lastIndex, Len(s))) >>
    ELSE <<>>

\* faulty variant of WholeTextIfEmpty: the final check for an empty result is missing
WholeTextDropped(s, result) == result

\* result.length === 0: the whole text as one run
WholeTextIfEmpty(s, result) ==
    IF Len(result) = 0 THEN << PlainText(s) >> ELSE result

RECURSIVE MatchLoop(_, _, _)

\* one turn of the while loop with m = regex.exec(text)
LoopTurn(s, lastIndex, result, m) ==
    IF m = NoMatch
    THEN result \o RemainingRuns(s, lastIndex)
    ELSE MatchLoop(s, m.index - 1 + Len(m.part),
                   result \o BeforeRuns(s, lastIndex, m) \o MatchRuns(m))

\* the while loop; lastIndex is the 0-based cursor
MatchLoop(s, lastIndex, result) ==
    LoopTurn(s, lastIndex, result, Exec(s, lastIndex + 1))

processFormattedText(s) == WholeTextIfEmpty(s, MatchLoop(s, 0, <<>>))

(***************************************************************************)
(* processListItems (the closure of case 'list').  A list item is          *)
(* [task, checked, text, tokens]; a block records, besides what the        *)
(* Paragraph is built from, the value of itemNum when it was pushed and    *)
(* the path of the item it was pushed for: <<i>> is item i of the token's  *)
(* list, p \o <<j, i>> is item i of the list that is sub-token j of the    *)
(* item at p.                                                              *)
(***************************************************************************)
CheckedGlyph == <<"U+2611", " ">>
UncheckedGlyph == <<"U+2610", " ">>

\* if (item.task) runs.push(checkbox)
CheckboxRuns(item) ==
    IF item.task
    THEN << PlainText(IF item.checked THEN CheckedGlyph ELSE UncheckedGlyph) >>
    ELSE <<>>

\* faulty variant of ItemRuns: the checkbox is pushed after the text
ItemRunsGlyphLast(item) == processFormattedText(item.text) \o CheckboxRuns(item)

\* the runs of one item: the checkbox, then processFormattedText(item.text)
ItemRuns(item) == CheckboxRuns(item) \o processFormattedText(item.text)

\* the Paragraph pushed for one item (numbering when ordered, bullet otherwise)
ListItemBlock(item, ordered, level, isFirstItem, itemNum, path) ==
    [kind |-> "ListItem", spans |-> ItemRuns(item), ordered |-> ordered,
     level |-> level, before |-> IF isFirstItem THEN 80 ELSE 40,
     itemNum |-> itemNum, path |-> path]

\* faulty variant of NestedStartNum: the nested list goes on from the number of its parent
NestedStartNumInherited(itemNum) == itemNum

\* startNum of the recursive call processListItems(items, ordered, level + 1):
\* the argument is omitted, so the default value applies
NestedStartNum(itemNum) == 1

RECURSIVE ItemLoop(_, _, _, _, _, _, _)
RECURSIVE NestedLoop(_, _, _, _, _)
RECURSIVE processListItems(_, _, _, _, _)

\* faulty variant of ItemLoop: the nested lists of an item are processed after
\* the items that follow it
ItemLoopNestedLast(items, k, ordered, level, itemNum, isFirstItem, path) ==
    IF k > Len(items) THEN <<>>
    ELSE << ListItemBlock(items[k], ordered, level, isFirstItem, itemNum,
                          path \o <<k>>) >>
         \o ItemLoop(items, k + 1, ordered, level, itemNum + 1, FALSE, path)
         \o NestedLoop(items[k].tokens, 1, level, itemNum + 1, path \o <<k>>)

\* the for-of loop over items, from item k on
ItemLoop(items, k, ordered, level, itemNum, isFirstItem, path) ==
    IF k > Len(items) THEN <<>>
    ELSE << ListItemBlock(items[k], ordered, level, isFirstItem, itemNum,
                          path \o <<k>>) >>
         \o NestedLoop(items[k].tokens, 1, level, itemNum + 1, path \o <<k>>)
         \o ItemLoop(items, k + 1, ordered, level, itemNum + 1, FALSE, path)

\* the for-of loop over item.tokens, from sub-token j on
NestedLoop(toks, j, level, itemNum, path) ==
    IF j > Len(toks) THEN <<>>
    ELSE (IF toks[j].type = "list"
          THEN processListItems(toks[j].items, toks[j].ordered, level + 1,
                                NestedStartNum(itemNum), path \o <<j>>)
          ELSE <<>>)
         \o NestedLoop(toks, j + 1, level, itemNum, path)

\* processListItems(items, ordered, level, startNum): the blocks it pushes
processListItems(items, ordered, level, startNum, path) ==
    ItemLoop(items, 1, ordered, level, startNum, level = 0, path)

(***************************************************************************)
(* detectImageType and fetchImage.                                         *)
(***************************************************************************)
DotSvg == <<".", "s", "v", "g">>
DotPng == <<".", "p", "n", "g">>
DotJpg == <<".", "j", "p", "g">>
DotJpeg == <<".", "j", "p", "e", "g">>
DotGif == <<".", "g", "i", "f">>
DotBmp == <<".", "b", "m", "p">>
Svg == <<"s", "v", "g">>
ImageSlash == <<"i", "m", "a", "g", "e", "/">>

detectImageType(url, contentType) ==
    LET urlLower == ToLowerCase(url)
        ctLower == ToLowerCase(contentType)
    IN  IF Includes(urlLower, DotPng) THEN "png"
        ELSE IF Includes(urlLower, DotJpg) \/ Includes(urlLower, DotJpeg) THEN "jpg"
        ELSE IF Includes(urlLower, DotGif) THEN "gif"
        ELSE IF Includes(urlLower, DotBmp) THEN "bmp"
        ELSE IF Includes(ctLower, ImageSlash \o <<"p", "n", "g">>) THEN "png"
        ELSE IF \/ Includes(ctLower, ImageSlash \o <<"j", "p", "e", "g">>)
                \/ Includes(ctLower, ImageSlash \o <<"j", "p", "g">>) THEN "jpg"
        ELSE IF Includes(ctLower, ImageSlash \o <<"g", "i", "f">>) THEN "gif"
        ELSE IF Includes(ctLower, ImageSlash \o <<"b", "m", "p">>) THEN "bmp"
        ELSE "png"

\* what fetchImage settles to: null, or { data, width, height, type }
NoImage == [kind |-> "null"]
Image(type) == [kind |-> "image", data |-> "bytes", width |-> 400,
                height |-> 300, type |-> type]
\* a rejected promise (fetchImage has no path that produces one)
Raised == [kind |-> "raised"]

\* faulty variant of SkipsSvgUrl: no URL is skipped
SkipsNoUrl(url) == FALSE

\* urlLower.includes('.svg'): the image is skipped before any fetch
SkipsSvgUrl(url) == Includes(ToLowerCase(url), DotSvg)

\* faulty variant of CatchFetchError: the error is thrown again
CatchRethrows(error) == Raised

\* the catch block of fetchImage: whatever was thrown, return null
CatchFetchError(error) == NoImage

\* fetch(url) settled with response r: the code up to the next await.
\* The value is <<next pc, imageData, imageType>>.
AfterResponse(url, r) ==
    IF r.kind = "rejected" THEN <<"await_image", CatchFetchError(r), "none">>
    ELSE IF ~r.ok THEN <<"await_image", NoImage, "none">>
    ELSE IF Includes(r.contentType, Svg) THEN <<"await_image", NoImage, "none">>
    ELSE <<"await_body", NoImage, detectImageType(url, r.contentType)>>

\* response.arrayBuffer() settled: the rest of fetchImage
AfterBody(r, type) ==
    IF r.body = "rejected" THEN CatchFetchError(r) ELSE Image(type)

(***************************************************************************)
(* convertMarkdownToDocx: the blocks pushed for one token.  A literal of   *)
(* the source that no code inspects is kept as one element ("Image").      *)
(***************************************************************************)
\* a || b on strings (undefined and '' are both falsy)
Or(a, b) == IF a # <<>> THEN a ELSE b

\* faulty variant of ImageParts: the pattern is not anchored at the end of the
\* text
ImagePartsUnanchored(s, close, paren) ==
    IF /\ OccursAt(s, <<"!", "[">>, 1)
       /\ close >= 3
       /\ OccursAt(s, <<"(">>, close + 1)
       /\ paren >= close + 3
    THEN [matched |-> TRUE, alt |-> SubSeq(s, 3, close - 1),
          url |-> SubSeq(s, close + 2, paren - 1)]
    ELSE [matched |-> FALSE, alt |-> <<>>, url |-> <<>>]

\* the image pattern, given the first "]" from the third character on and the
\* first ")" after the "(": the alt group may be empty, the url group may not,
\* and the ")" must end the text
ImageParts(s, close, paren) ==
    IF /\ OccursAt(s, <<"!", "[">>, 1)
       /\ close >= 3
       /\ OccursAt(s, <<"(">>, close + 1)
       /\ paren >= close + 3
       /\ paren = Len(s)
    THEN [matched |-> TRUE, alt |-> SubSeq(s, 3, close - 1),
          url |-> SubSeq(s, close + 2, paren - 1)]
    ELSE [matched |-> FALSE, alt |-> <<>>, url |-> <<>>]

ImageClosedAt(s, close) == ImageParts(s, close, FirstOccurrence(s, <<")">>, close + 2))

\* paragraphToken.text.match(/^!\[([^\]]*)\]\(([^)]+)\)$/)
ImageMatch(s) == ImageClosedAt(s, FirstOccurrence(s, <<"]">>, 3))

\* the token suspends the loop on fetchImage
IsImageToken(t) ==
    \/ t.type = "image"
    \/ t.type = "paragraph" /\ ImageMatch(t.text).matched

\* altText / imageUrl of the paragraph case, text / href / title of the image case
ImageAlt(t) == IF t.type = "image" THEN t.text ELSE ImageMatch(t.text).alt
ImageUrl(t) == IF t.type = "image" THEN t.href ELSE ImageMatch(t.text).url
ImageTitle(t) == IF t.type = "image" THEN t.title ELSE <<>>

\* faulty variant of EmbeddedBlocks: the caption is pushed whatever the alt text
EmbeddedBlocksCaptionAlways(data, title, alt) ==
    << [kind |-> "EmbeddedImage", type |-> data.type, data |-> data.data,
        width |-> data.width, height |-> data.height,
        altTitle |-> Or(title, Or(alt, <<"Image">>))],
       [kind |-> "Caption", spans |-> << Span("Caption", alt, <<>>) >>] >>

\* the Paragraph holding the ImageRun, and the caption when there is alt text
EmbeddedBlocks(data, title, alt) ==
    << [kind |-> "EmbeddedImage", type |-> data.type, data |-> data.data,
        width |-> data.width, height |-> data.height,
        altTitle |-> Or(title, Or(alt, <<"Image">>))] >>
    \o (IF alt # <<>>
        THEN << [kind |-> "Caption", spans |-> << Span("Caption", alt, <<>>) >>] >>
        ELSE <<>>)

\* faulty variant of FallbackLinkText: the placeholder is shown whatever the alt text
FallbackLinkTextFixed(alt) == <<"Image">>

\* the text of the hyperlink of the fallback: altText || 'Image'
FallbackLinkText(alt) == Or(alt, <<"Image">>)

\* the fallback Paragraph: picture glyph, clickable link, marker
FallbackBlocks(alt, url) ==
    << [kind |-> "ImageFallback",
        spans |-> << PlainText(<<"U+1F5BC", " ">>),
                     Span("Hyperlink", FallbackLinkText(alt), url),
                     PlainText(<<" (could not embed)">>) >>] >>

\* if (imageData) ... else ...
ImageBlocks(t, data) ==
    IF data.kind = "image"
    THEN EmbeddedBlocks(data, ImageTitle(t), ImageAlt(t))
    ELSE FallbackBlocks(ImageAlt(t), ImageUrl(t))

RECURSIVE QuoteBlocks(_, _)
\* case 'blockquote': one Paragraph per paragraph sub-token, from sub-token j on
QuoteBlocks(toks, j) ==
    IF j > Len(toks) THEN <<>>
    ELSE (IF toks[j].type = "paragraph"
          THEN << [kind |-> "BlockQuoteLine",
                   spans |-> processFormattedText(toks[j].text)] >>
          ELSE <<>>)
         \o QuoteBlocks(toks, j + 1)

\* tableToken.header / row .map(cell => processFormattedText(cell.text))
CellRuns(cells) == [c \in DOMAIN cells |-> processFormattedText(cells[c])]

\* faulty variant of DefaultBlocks: an unhandled token is rendered as an empty paragraph
DefaultAsParagraph(t) == << [kind |-> "Paragraph", spans |-> << PlainText(<<>>) >>] >>

\* the default case: the token is logged and nothing is pushed
DefaultBlocks(t) == <<>>

\* the switch, for the token kinds that do not await
SwitchBlocks(t) ==
    CASE t.type = "heading" ->
           << [kind |-> "Heading", level |-> t.depth,
               spans |-> << PlainText(t.text) >>] >>
      [] t.type = "paragraph" ->
           << [kind |-> "Paragraph", spans |-> processFormattedText(t.text)] >>
      [] t.type = "list" ->
           processListItems(t.items, t.ordered, 0, 1, <<>>)
      [] t.type = "blockquote" -> QuoteBlocks(t.tokens, 1)
      [] t.type = "code" -> << [kind |-> "CodeBlock", text |-> t.text] >>
      [] t.type = "hr" -> << [kind |-> "Rule"] >>
      [] t.type = "table" ->
           << [kind |-> "Table", header |-> CellRuns(t.header),
               rows |-> [r \in DOMAIN t.rows |-> CellRuns(t.rows[r])]] >>
      [] t.type = "space" -> <<>>
      [] OTHER -> DefaultBlocks(t)

\* faulty variant of Truthy: the test of lastTokenType is missing
TruthyAlways(x) == TRUE

\* lastTokenType && ... (null and '' are falsy)
Truthy(x) == x # "null" /\ x # ""

\* faulty variant of EmitsSpacer: every space token pushes a spacing Paragraph
EmitsSpacerEverySpace(last, type, breaks) == type = "space"

\* lines 345-349: this token pushes the spacing Paragraph
EmitsSpacer(last, type, breaks) ==
    /\ Truthy(last) /\ last # type
    /\ type = "space"
    /\ breaks + 1 <= 1

\* consecutiveBreaks after the spacing heuristic (lines 345-362)
BreaksAfterSpacing(last, type, breaks) ==
    IF Truthy(last) /\ last # type
    THEN (IF type = "space" THEN breaks + 1 ELSE 0)
    ELSE breaks

\* consecutiveBreaks after the case of the switch: every case but 'space'
\* assigns 0
BreaksAfterCase(type, breaks) == IF type = "space" THEN breaks ELSE 0

SpacerBlocks(last, type, breaks) ==
    IF EmitsSpacer(last, type, breaks) THEN << [kind |-> "Spacer"] >> ELSE <<>>

\* a block together with the index of the token whose iteration pushed it
WithSrc(b, i) ==
    [f \in (DOMAIN b) \cup {"src"} |-> IF f = "src" THEN i ELSE b[f]]

\* faulty variant of Push: the new blocks are put in front of the list
PushFront(list, blocks, i) == [k \in DOMAIN blocks |-> WithSrc(blocks[k], i)] \o list

\* children.push(...) of the blocks of token i
Push(list, blocks, i) == list \o [k \in DOMAIN blocks |-> WithSrc(blocks[k], i)]

(***************************************************************************)
(* Specification Spec: one call of convertMarkdownToDocx on every token    *)
(* stream of at most MaxTokens tokens, the network answering each fetch in *)
(* every possible way.  pc is "loop" at the head of the for-of loop,       *)
(* "await_fetch" / "await_body" inside fetchImage, "await_image" when      *)
(* fetchImage has settled and the loop has not resumed yet.                *)
(***************************************************************************)
SeqsUpTo(A, n) == UNION {[1..k -> A] : k \in 0..n}

\* the promise returned by convertMarkdownToDocx: not settled, or rejected
\* with an error
Pending == [kind |-> "pending"]
Thrown(error) == [kind |-> "thrown", error |-> error]

\* faulty variant of CatchConversionError: a new error is thrown in place of
\* the one caught
CatchConversionWraps(error) == "ConversionError"

\* the catch block of convertMarkdownToDocx: the error is logged and thrown again
CatchConversionError(error) == error

\* the outer catch block of convertMarkdownToGoogleDoc: logged and thrown again
CatchCallerError(error) == error

NoResponse == [kind |-> "none"]

\* no request has come in, and nothing has been sent on the response
NoRequest == [kind |-> "none"]
NotSent == [kind |-> "not_sent"]
NoList == [type |-> "list", ordered |-> FALSE, items |-> <<>>]

\* every way fetch(url) can settle
Responses ==
    { [kind |-> "rejected"] } \cup
    { [kind |-> "response", ok |-> FALSE, contentType |-> <<>>, body |-> "pending"] }
    \cup
    { [kind |-> "response", ok |-> TRUE, contentType |-> ct, body |-> "pending"] :
        ct \in { <<>>,
                 ImageSlash \o <<"s", "v", "g", "+", "x", "m", "l">>,
                 ImageSlash \o <<"j", "p", "e", "g">> } }

ImageTok(href, alt) ==
    [type |-> "image", href |-> href, text |-> alt, title |-> <<>>]
ParagraphTok(txt) == [type |-> "paragraph", text |-> txt]

TokenSet ==
    { [type |-> "heading", depth |-> 1, text |-> <<"T">>],
      ParagraphTok(<<"a", " ", "*", "*", "b", "*", "*">>),
      \* ![a](u.svg) and ![](u)
      ParagraphTok(<<"!", "[", "a", "]", "(", "u">> \o DotSvg \o <<")">>),
      ParagraphTok(<<"!", "[", "]", "(", "u", ")">>),
      [type |-> "list", ordered |-> TRUE,
       items |-> << [task |-> TRUE, checked |-> TRUE, text |-> <<"D", "o", "n", "e">>,
                     tokens |-> << [type |-> "text"],
                                   [type |-> "list", ordered |-> TRUE,
                                    items |-> << [task |-> FALSE, checked |-> FALSE,
                                                  text |-> <<"a">>,
                                                  tokens |-> << [type |-> "text"] >>] >>]
                                >>] >>],
      [type |-> "blockquote",
       tokens |-> << ParagraphTok(<<"q">>), [type |-> "space"] >>],
      [type |-> "code", text |-> <<"c">>],
      [type |-> "hr"],
      [type |-> "table", header |-> << <<"h">> >>, rows |-> << << <<"*", "c", "*">> >> >>],
      [type |-> "space"],
      ImageTok(<<"u">> \o DotPng, <<"a">>),
      ImageTok(<<"u", ".", "S", "V", "G">>, <<>>),
      [type |-> "html"] }

Init ==
    /\ pc = "loop"
    /\ tokens \in SeqsUpTo(TokenSet, MaxTokens)
    /\ pos = 1
    /\ children = <<>>
    /\ lastTokenType = "null"
    /\ consecutiveBreaks = 0
    /\ imageData = NoImage /\ inflight = {} /\ fetchLog = <<>>
    /\ imageType = "none" /\ response = NoResponse
    /\ text = <<>> /\ runs = <<>> /\ listToken = NoList
    /\ calls = <<>>
    /\ docxBuffer = Pending
    /\ req = NoRequest /\ results = <<>> /\ res = NotSent

\* faulty variant of AwaitAt: the promise is not awaited and the loop runs on
NotAwaited(label) == "loop"

\* the await: the loop stays suspended at label until the promise settles
AwaitAt(label) == label

\* one iteration of the for-of loop on a token that does not await
StepToken ==
    /\ pc = "loop"
    /\ pos <= Len(tokens)
    /\ ~IsImageToken(tokens[pos])
    /\ LET t == tokens[pos]
       IN  /\ children' =
                Push(Push(children,
                          SpacerBlocks(lastTokenType, t.type, consecutiveBreaks), pos),
                     SwitchBlocks(t), pos)
           /\ consecutiveBreaks' =
                BreaksAfterCase(t.type,
                    BreaksAfterSpacing(lastTokenType, t.type, consecutiveBreaks))
           /\ lastTokenType' = t.type
    /\ pos' = pos + 1
    /\ UNCHANGED <<pc, tokens, imageData, inflight, fetchLog, imageType, response,
                   text, runs, listToken,
                   calls, docxBuffer, req, results, res>>

\* an image token, up to the first await inside fetchImage
StartImage ==
    /\ pc = "loop"
    /\ pos <= Len(tokens)
    /\ IsImageToken(tokens[pos])
    /\ LET t == tokens[pos]
           url == ImageUrl(t)
       IN  /\ children' =
                Push(children,
                     SpacerBlocks(lastTokenType, t.type, consecutiveBreaks), pos)
           /\ consecutiveBreaks' =
                BreaksAfterCase(t.type,
                    BreaksAfterSpacing(lastTokenType, t.type, consecutiveBreaks))
           /\ IF SkipsSvgUrl(url)
              THEN /\ pc' = AwaitAt("await_image")
                   /\ UNCHANGED <<inflight, fetchLog>>
              ELSE /\ pc' = AwaitAt("await_fetch")
                   /\ fetchLog' = Append(fetchLog, url)
                   /\ inflight' = inflight \cup
                        { [id |-> Len(fetchLog) + 1, tok |-> pos, url |-> url] }
    /\ imageData' = NoImage
    /\ imageType' = "none"
    /\ response' = NoResponse
    /\ UNCHANGED <<tokens, pos, lastTokenType, text, runs, listToken,
                   calls, docxBuffer, req, results, res>>

\* fetch(url) settles
FetchSettles ==
    /\ pc = "await_fetch"
    /\ \E r \in Responses :
         LET after == AfterResponse(ImageUrl(tokens[pos]), r)
         IN  /\ pc' = after[1]
             /\ imageData' = after[2]
             /\ imageType' = after[3]
             /\ response' = r
             /\ inflight' = IF after[1] = "await_body" THEN inflight
                            ELSE {q \in inflight : q.tok # pos}
    /\ UNCHANGED <<tokens, pos, children, lastTokenType, consecutiveBreaks,
                   fetchLog, text, runs, listToken,
                   calls, docxBuffer, req, results, res>>

\* response.arrayBuffer() settles
BodySettles ==
    /\ pc = "await_body"
    /\ \E b \in {"rejected", "bytes"} :
         /\ response' = [response EXCEPT !.body = b]
         /\ imageData' = AfterBody(response', imageType)
    /\ pc' = "await_image"
    /\ inflight' = {q \in inflight : q.tok # pos}
    /\ UNCHANGED <<tokens, pos, children, lastTokenType, consecutiveBreaks,
                   fetchLog, imageType, text, runs, listToken,
                   calls, docxBuffer, req, results, res>>

\* the loop resumes with the value of the awaited fetchImage(...); a rejection
\* would be rethrown by the catch block of convertMarkdownToDocx
ResumeImage ==
    /\ pc = "await_image"
    /\ IF imageData.kind = "raised"
       THEN /\ pc' = "failed"
            /\ docxBuffer' = Thrown(CatchConversionError("FetchError"))
            /\ UNCHANGED <<children, lastTokenType, pos>>
       ELSE /\ children' = Push(children, ImageBlocks(tokens[pos], imageData), pos)
            /\ lastTokenType' = tokens[pos].type
            /\ pos' = pos + 1
            /\ pc' = "loop"
            /\ UNCHANGED docxBuffer
    /\ UNCHANGED <<tokens, consecutiveBreaks, imageData, inflight, fetchLog,
                   imageType, response, text, runs, listToken, calls, req, results, res>>

\* every way Packer.toBuffer(doc) can settle: with a buffer, which the caller
\* tests for being empty, or with a rejection
EncoderOutcomes ==
    { [kind |-> "buffer", length |-> 1],
      [kind |-> "buffer", length |-> 0],
      [kind |-> "rejected", error |-> "EncoderError"] }

\* after the loop: new Document(...) and return await Packer.toBuffer(doc);
\* a rejection is caught by the catch block of convertMarkdownToDocx
Finish ==
    /\ pc = "loop"
    /\ pos > Len(tokens)
    /\ \E settled \in EncoderOutcomes :
         IF settled.kind = "buffer"
         THEN pc' = "done" /\ docxBuffer' = settled
         ELSE pc' = "failed" /\ docxBuffer' = Thrown(CatchConversionError(settled.error))
    /\ UNCHANGED <<tokens, pos, children, lastTokenType, consecutiveBreaks,
                   imageData, inflight, fetchLog, imageType, response, text, runs,
                   listToken, calls, req, results, res>>

\* convertMarkdownToGoogleDoc resumes from await convertMarkdownToDocx(...):
\* an error is caught and thrown again, an empty buffer makes it throw, any
\* other buffer goes on to the upload
CallerResumes ==
    /\ pc \in {"done", "failed"}
    /\ IF docxBuffer.kind = "thrown"
       THEN /\ pc' = "caller_failed"
            /\ docxBuffer' = Thrown(CatchCallerError(docxBuffer.error))
       ELSE IF docxBuffer.length = 0
       THEN /\ pc' = "caller_failed"
            /\ docxBuffer' = Thrown(CatchCallerError("EmptyBufferError"))
       ELSE /\ pc' = "caller_upload"
            /\ UNCHANGED docxBuffer
    /\ UNCHANGED <<tokens, pos, children, lastTokenType, consecutiveBreaks,
                   imageData, inflight, fetchLog, imageType, response, text, runs,
                   listToken, calls, req, results, res>>

Next ==
    \/ StepToken \/ StartImage \/ FetchSettles \/ BodySettles \/ ResumeImage
    \/ Finish \/ CallerResumes

Spec == Init /\ [][Next]_vars

(***************************************************************************)
(* Specification SpecText: processFormattedText applied to every text of   *)
(* the bounded input set.                                                  *)
(***************************************************************************)
MarkerAlphabet == {"a", "*", "~", Backtick, NL}
LinkAlphabet == {"a", "[", "]", "(", ")"}

\* "Hello **world**", "Done", "[a](a) *a*" in the alphabet of the model
SampleTexts ==
    { <<"a", " ", "*", "*", "b", "*", "*">>,
      <<"D", "o", "n", "e">>,
      <<"[", "a", "]", "(", "a", ")", " ", "*", "a", "*">> }

\* the texts of at most maxLen marker characters or maxLinkLen link characters
TextInputsUpTo(maxLen, maxLinkLen) ==
    SeqsUpTo(MarkerAlphabet, maxLen) \cup SeqsUpTo(LinkAlphabet, maxLinkLen)
        \cup SampleTexts


InitText ==
    /\ pc = "text_call"
    /\ text \in TextInputsUpTo(MaxLen, MaxLinkLen)
    /\ runs = <<>>
    /\ tokens = <<>> /\ pos = 1 /\ children = <<>>
    /\ lastTokenType = "null" /\ consecutiveBreaks = 0
    /\ imageData = NoImage /\ inflight = {} /\ fetchLog = <<>>
    /\ imageType = "none" /\ response = NoResponse /\ listToken = NoList
    /\ calls = <<>>
    /\ docxBuffer = Pending
    /\ req = NoRequest /\ results = <<>> /\ res = NotSent

ParseText ==
    /\ pc = "text_call"
    /\ runs' = processFormattedText(text)
    /\ pc' = "text_done"
    /\ UNCHANGED <<tokens, pos, children, lastTokenType, consecutiveBreaks,
                   imageData, inflight, fetchLog, imageType, response, text,
                   listToken,
                   calls, docxBuffer, req, results, res>>

NextText == ParseText

SpecText == InitText /\ [][NextText]_vars

(***************************************************************************)
(* Specification SpecList: processListItems applied to every list token    *)
(* of at most MaxItems items (all depths together).                        *)
(***************************************************************************)
TextToken == [type |-> "text"]

\* what the lexer reports for "a" and "[x] Done"
ParentVariants ==
    { [task |-> FALSE, checked |-> FALSE, text |-> <<"a">>],
      [task |-> TRUE, checked |-> TRUE, text |-> <<"D", "o", "n", "e">>] }

\* and for "[ ] **b**"
ItemVariants ==
    ParentVariants \cup
    { [task |-> TRUE, checked |-> FALSE, text |-> <<"*", "*", "b", "*", "*">>] }

ListTok(ordered, items) == [type |-> "list", ordered |-> ordered, items |-> items]

Item(v, toks) ==
    [task |-> v.task, checked |-> v.checked, text |-> v.text, tokens |-> toks]

RECURSIVE ItemSeqsOfSize(_)
RECURSIVE ItemsOfSize(_)

\* the item sequences that hold exactly n items, nested ones included
ItemSeqsOfSize(n) ==
    IF n = 0 THEN {<<>>}
    ELSE UNION { { <<it>> \o rest : it \in ItemsOfSize(k),
                                    rest \in ItemSeqsOfSize(n - k) } : k \in 1..n }

\* the items that hold exactly n items, themselves included
ItemsOfSize(n) ==
    IF n = 1 THEN { Item(v, <<TextToken>>) : v \in ItemVariants }
    ELSE { Item(v, <<TextToken, ListTok(o, sub)>>) :
             v \in ParentVariants, o \in BOOLEAN, sub \in ItemSeqsOfSize(n - 1) }

\* the list tokens of at most max items
ListTokensUpTo(max) ==
    UNION { { ListTok(o, items) : o \in BOOLEAN, items \in ItemSeqsOfSize(n) } :
            n \in 1..max }

InitList ==
    /\ pc = "list_call"
    /\ listToken \in ListTokensUpTo(MaxItems)
    /\ children = <<>>
    /\ tokens = <<>> /\ pos = 1
    /\ lastTokenType = "null" /\ consecutiveBreaks = 0
    /\ imageData = NoImage /\ inflight = {} /\ fetchLog = <<>>
    /\ imageType = "none" /\ response = NoResponse /\ text = <<>> /\ runs = <<>>
    /\ calls = <<>>
    /\ docxBuffer = Pending
    /\ req = NoRequest /\ results = <<>> /\ res = NotSent

MaterializeList ==
    /\ pc = "list_call"
    /\ children' = processListItems(listToken.items, listToken.ordered, 0, 1, <<>>)
    /\ pc' = "list_done"
    /\ UNCHANGED <<tokens, pos, lastTokenType, consecutiveBreaks, imageData,
                   inflight, fetchLog, imageType, response, text, runs, listToken,
                   calls, docxBuffer, req, results, res>>

NextList == MaterializeList

SpecList == InitList /\ [][NextList]_vars

(***************************************************************************)
(* Specification SpecBatch: the conversions of one batch, started in       *)
(* request order by requests.map(async ...) under Promise.all.  A call     *)
(* runs without interruption from one await to the next, and the calls     *)
(* interleave at those awaits in every possible way.  calls[c] holds the   *)
(* locals of call c; resolved is the sequence of values its awaited        *)
(* fetchImage calls have settled to.                                       *)
(***************************************************************************)
MaxCallTokens == 2      \* longest token stream of one call of a batch

\* the requests of a batch: a binding is either local to a call or shared by
\* all of them, so two calls show any sharing
Calls == {1, 2}

CallTokenSet ==
    { [type |-> "heading", depth |-> 1, text |-> <<"T">>],
      [type |-> "space"],
      ImageTok(<<"u">>, <<"a">>) }

\* the bindings made when convertMarkdownToDocx is entered
NewCall(toks) ==
    [pc |-> "start", tokens |-> toks, pos |-> 1,
     children |-> <<>>, lastTokenType |-> "null", consecutiveBreaks |-> 0,
     imageData |-> NoImage, imageType |-> "none", resolved |-> <<>>]

\* faulty variant of Frame: the three bindings are made once for the module
FrameShared(c) == 1

\* children, lastTokenType and consecutiveBreaks are declared in the body of
\* convertMarkdownToDocx: every call has bindings of its own
Frame(c) == c

\* the three locals a call reads and writes
LocalsOf(cs, c) ==
    [children |-> cs[Frame(c)].children,
     lastTokenType |-> cs[Frame(c)].lastTokenType,
     consecutiveBreaks |-> cs[Frame(c)].consecutiveBreaks]

WithLocals(cs, c, loc) ==
    [cs EXCEPT ![Frame(c)].children = loc.children,
               ![Frame(c)].lastTokenType = loc.lastTokenType,
               ![Frame(c)].consecutiveBreaks = loc.consecutiveBreaks]

\* one iteration up to the body of the case: the spacing heuristic and the
\* assignment to the counter that opens every case but space
BeforeCase(loc, t, i) ==
    [children |-> Push(loc.children,
                       SpacerBlocks(loc.lastTokenType, t.type, loc.consecutiveBreaks), i),
     lastTokenType |-> loc.lastTokenType,
     consecutiveBreaks |->
         BreaksAfterCase(t.type,
             BreaksAfterSpacing(loc.lastTokenType, t.type, loc.consecutiveBreaks))]

\* the rest of the iteration: the blocks of the case, then lastTokenType
AfterCase(loc, t, i, blocks) ==
    [children |-> Push(loc.children, blocks, i),
     lastTokenType |-> t.type,
     consecutiveBreaks |-> loc.consecutiveBreaks]

RECURSIVE RunToAwait(_, _, _)
\* the loop from token i on, up to the next token that awaits fetchImage or
\* to the end of the stream: the locals and the index reached
RunToAwait(loc, toks, i) ==
    IF i > Len(toks) THEN [locals |-> loc, pos |-> i]
    ELSE IF IsImageToken(toks[i])
    THEN [locals |-> BeforeCase(loc, toks[i], i), pos |-> i]
    ELSE RunToAwait(AfterCase(BeforeCase(loc, toks[i], i), toks[i], i,
                              SwitchBlocks(toks[i])),
                    toks, i + 1)

\* call c after its loop ran from token i with locals loc until it suspended:
\* inside fetchImage, or on Packer.toBuffer after the last token
Suspended(cs, c, ran) ==
    LET toks == cs[c].tokens
    IN  [WithLocals(cs, c, ran.locals) EXCEPT
           ![c].pos = ran.pos,
           ![c].imageData = NoImage,
           ![c].imageType = "none",
           ![c].pc = IF ran.pos > Len(toks) THEN "await_encode"
                     ELSE IF SkipsSvgUrl(ImageUrl(toks[ran.pos]))
                          THEN "await_image" ELSE "await_fetch"]

\* the fetch() requests issued by the step that took calls from cs to next
Issued(cs, next, c, log) ==
    IF next[c].pc = "await_fetch"
    THEN { [id |-> Len(log) + 1, call |-> c, tok |-> next[c].pos,
            url |-> ImageUrl(next[c].tokens[next[c].pos])] }
    ELSE {}

RunCall(c, i, loc) ==
    LET next == Suspended(calls, c, RunToAwait(loc, calls[c].tokens, i))
        new == Issued(calls, next, c, fetchLog)
    IN  /\ calls' = next
        /\ inflight' = inflight \cup new
        /\ fetchLog' = fetchLog \o [k \in 1..Cardinality(new) |->
                                       ImageUrl(next[c].tokens[next[c].pos])]

InitBatch ==
    /\ pc = "batch"
    /\ calls \in [Calls -> {NewCall(toks) : toks \in SeqsUpTo(CallTokenSet, MaxCallTokens)}]
    /\ inflight = {} /\ fetchLog = <<>>
    /\ tokens = <<>> /\ pos = 1 /\ children = <<>>
    /\ lastTokenType = "null" /\ consecutiveBreaks = 0
    /\ imageData = NoImage /\ imageType = "none" /\ response = NoResponse
    /\ text = <<>> /\ runs = <<>> /\ listToken = NoList
    /\ docxBuffer = Pending
    /\ req = NoRequest /\ results = <<>> /\ res = NotSent

\* requests.map calls the async function for request c: the call runs to its
\* first await before the next request is looked at
CallStart(c) ==
    /\ calls[c].pc = "start"
    /\ \A d \in Calls : d < c => calls[d].pc # "start"
    /\ RunCall(c, 1, LocalsOf(calls, c))
    /\ UNCHANGED <<pc, tokens, pos, children, lastTokenType, consecutiveBreaks,
                   imageData, imageType, response, text, runs, listToken, docxBuffer, req, results, res>>

\* map() has called the function for every request before any awaited
\* promise is acted on
AllStarted == \A d \in Calls : calls[d].pc # "start"

\* fetch(url) of call c settles
CallFetchSettles(c) ==
    /\ AllStarted
    /\ calls[c].pc = "await_fetch"
    /\ \E r \in Responses :
         LET after == AfterResponse(ImageUrl(calls[c].tokens[calls[c].pos]), r)
         IN  /\ calls' = [calls EXCEPT ![c].pc = after[1],
                                       ![c].imageData = after[2],
                                       ![c].imageType = after[3]]
             /\ inflight' = IF after[1] = "await_body" THEN inflight
                            ELSE {q \in inflight : q.call # c}
    /\ UNCHANGED <<pc, tokens, pos, children, lastTokenType, consecutiveBreaks,
                   imageData, fetchLog, imageType, response, text, runs, listToken,
                   docxBuffer, req, results, res>>

\* response.arrayBuffer() of call c settles
CallBodySettles(c) ==
    /\ AllStarted
    /\ calls[c].pc = "await_body"
    /\ \E b \in {"rejected", "bytes"} :
         calls' = [calls EXCEPT
                     ![c].pc = "await_image",
                     ![c].imageData = AfterBody([body |-> b], calls[c].imageType)]
    /\ inflight' = {q \in inflight : q.call # c}
    /\ UNCHANGED <<pc, tokens, pos, children, lastTokenType, consecutiveBreaks,
                   imageData, fetchLog, imageType, response, text, runs, listToken,
                   docxBuffer, req, results, res>>

\* call c resumes with the value of fetchImage and runs to its next await
CallResume(c) ==
    /\ AllStarted
    /\ calls[c].pc = "await_image"
    /\ calls[c].imageData.kind # "raised"
    /\ LET t == calls[c].tokens[calls[c].pos]
           data == calls[c].imageData
           loc == AfterCase(LocalsOf(calls, c), t, calls[c].pos, ImageBlocks(t, data))
           next == Suspended([calls EXCEPT ![c].resolved = Append(@, data)], c,
                             RunToAwait(loc, calls[c].tokens, calls[c].pos + 1))
           new == Issued(calls, next, c, fetchLog)
       IN  /\ calls' = next
           /\ inflight' = inflight \cup new
           /\ fetchLog' = fetchLog \o [k \in 1..Cardinality(new) |->
                                          ImageUrl(next[c].tokens[next[c].pos])]
    /\ UNCHANGED <<pc, tokens, pos, children, lastTokenType, consecutiveBreaks,
                   imageData, imageType, response, text, runs, listToken, docxBuffer, req, results, res>>

\* Packer.toBuffer(doc) of call c resolves to the buffer or rejects
CallEncodeSettles(c) ==
    /\ AllStarted
    /\ calls[c].pc = "await_encode"
    /\ \E encoded \in BOOLEAN :
         calls' = [calls EXCEPT ![c].pc = IF encoded THEN "done" ELSE "failed"]
    /\ UNCHANGED <<pc, tokens, pos, children, lastTokenType, consecutiveBreaks,
                   imageData, inflight, fetchLog, imageType, response, text, runs,
                   listToken, docxBuffer, req, results, res>>

NextBatch ==
    \E c \in Calls :
        \/ CallStart(c)
        \/ CallFetchSettles(c)
        \/ CallBodySettles(c)
        \/ CallResume(c)
        \/ CallEncodeSettles(c)

SpecBatch == InitBatch /\ [][NextBatch]_vars

(***************************************************************************)
(* Specification SpecImageType: detectImageType applied to every URL and   *)
(* content type of the bounded input sets.  The URL is that of the one     *)
(* image token, the content type that of the response.                     *)
(***************************************************************************)
MaxUrlParts == 2    \* most parts after the first character of a URL

UrlParts ==
    { DotPng, DotJpg, DotJpeg, DotGif, DotBmp, <<".", "P", "N", "G">>, <<"/", "x">> }

ContentTypes ==
    { <<>>,
      ImageSlash \o <<"p", "n", "g">>,
      ImageSlash \o <<"P", "N", "G">>,
      ImageSlash \o <<"j", "p", "e", "g">>,
      ImageSlash \o <<"j", "p", "g">>,
      ImageSlash \o <<"g", "i", "f">>,
      ImageSlash \o <<"b", "m", "p">>,
      <<"t", "e", "x", "t">> }

RECURSIVE Joined(_, _)
\* the parts of a URL, from part n on, one after the other
Joined(parts, n) ==
    IF n > Len(parts) THEN <<>> ELSE parts[n] \o Joined(parts, n + 1)

UrlsUpTo(max) == { <<"u">> \o Joined(parts, 1) : parts \in SeqsUpTo(UrlParts, max) }

InitImageType ==
    /\ pc = "type_call"
    /\ tokens \in { << ImageTok(url, <<>>) >> : url \in UrlsUpTo(MaxUrlParts) }
    /\ response \in { [kind |-> "response", ok |-> TRUE, contentType |-> ct,
                       body |-> "pending"] : ct \in ContentTypes }
    /\ imageType = "none"
    /\ pos = 1 /\ children = <<>>
    /\ lastTokenType = "null" /\ consecutiveBreaks = 0
    /\ imageData = NoImage /\ inflight = {} /\ fetchLog = <<>>
    /\ text = <<>> /\ runs = <<>> /\ listToken = NoList
    /\ calls = <<>>
    /\ docxBuffer = Pending
    /\ req = NoRequest /\ results = <<>> /\ res = NotSent

\* const imageType = detectImageType(url, contentType)
DetectType ==
    /\ pc = "type_call"
    /\ imageType' = detectImageType(ImageUrl(tokens[1]), response.contentType)
    /\ pc' = "type_done"
    /\ UNCHANGED <<tokens, pos, children, lastTokenType, consecutiveBreaks,
                   imageData, inflight, fetchLog, response, text, runs, listToken,
                   calls, docxBuffer, req, results, res>>

NextImageType == DetectType

SpecImageType == InitImageType /\ [][NextImageType]_vars

(***************************************************************************)
(* Specification SpecParagraph: the token loop on one paragraph token, for *)
(* every text of the bounded input set, up to the end of the loop.         *)
(***************************************************************************)
MaxRefLen == 6      \* longest paragraph text over the image alphabet

RefAlphabet == {"!", "[", "]", "(", ")", "a"}

\* "![a](u.png)", "![a](u) x", "x ![a](u)", "![a](u)![a](u)", "a **b**"
SampleParagraphs ==
    { <<"!", "[", "a", "]", "(", "u">> \o DotPng \o <<")">>,
      <<"!", "[", "a", "]", "(", "u", ")", " ", "x">>,
      <<"x", " ", "!", "[", "a", "]", "(", "u", ")">>,
      <<"!", "[", "a", "]", "(", "u", ")", "!", "[", "a", "]", "(", "u", ")">>,
      <<"a", " ", "*", "*", "b", "*", "*">> }

ParagraphTextsUpTo(max) == SeqsUpTo(RefAlphabet, max) \cup SampleParagraphs

InitParagraph ==
    /\ pc = "loop"
    /\ tokens \in { << ParagraphTok(txt) >> : txt \in ParagraphTextsUpTo(MaxRefLen) }
    /\ pos = 1
    /\ children = <<>>
    /\ lastTokenType = "null"
    /\ consecutiveBreaks = 0
    /\ imageData = NoImage /\ inflight = {} /\ fetchLog = <<>>
    /\ imageType = "none" /\ response = NoResponse
    /\ text = <<>> /\ runs = <<>> /\ listToken = NoList
    /\ calls = <<>>
    /\ docxBuffer = Pending
    /\ req = NoRequest /\ results = <<>> /\ res = NotSent

NextParagraph ==
    StepToken \/ StartImage \/ FetchSettles \/ BodySettles \/ ResumeImage

SpecParagraph == InitParagraph /\ [][NextParagraph]_vars

(***************************************************************************)
(* Specification SpecHandler: the HTTP handler.  The body is JSON that the *)
(* platform has parsed: an array of requests or one request, where a       *)
(* request is an object or null.  The async function of requests.map runs  *)
(* for each request in order up to its first await or its return; the      *)
(* conversions then settle in any order and Promise.all gives the handler  *)
(* the values in request order, or the first rejection.                    *)
(***************************************************************************)
MaxRequests == 2   \* longest array in the body

\* values of the JSON body, the headers and the fields of an error
Undefined == [kind |-> "undefined"]
Null == [kind |-> "null"]
Str(chars) == [kind |-> "string", chars |-> chars]
Num(n) == [kind |-> "number", n |-> n]
Obj(output) == [kind |-> "object", output |-> output]
Arr(items) == [kind |-> "array", items |-> items]

\* !v of a value
Falsy(v) ==
    \/ v.kind \in {"undefined", "null"}
    \/ v.kind = "string" /\ v.chars = <<>>
    \/ v.kind = "number" /\ v.n = 0

\* error.status || 500
StatusOr(status, fallback) == IF Falsy(status) THEN fallback ELSE status

Bearer == <<"B", "e", "a", "r", "e", "r", " ">>
Basic == <<"B", "a", "s", "i", "c", " ">>

\* the elements a body holds: null, an object without output, with an empty
\* output and with markdown
RequestSet == { Null, Obj(Undefined), Obj(Str(<<>>)), Obj(Str(<<"#">>)) }

Methods == {"GET", "POST", "DELETE"}

\* the authorization header: absent, empty, another scheme, the scheme
\* without the space, a bearer token
AuthHeaders ==
    { Undefined, Str(<<>>), Str(Basic \o <<"t">>),
      Str(<<"B", "e", "a", "r", "e", "r">>), Str(Bearer \o <<"t">>) }

Bodies(max) ==
    {Arr(items) : items \in SeqsUpTo(RequestSet, max)} \cup RequestSet

\* Array.isArray(req.body) ? req.body : [req.body]
RequestsOf(body) == IF body.kind = "array" THEN body.items ELSE <<body>>

\* the states of the promise an async function returns
Fulfilled(value) == [state |-> "fulfilled", value |-> value, started |-> FALSE]
Rejected(error) == [state |-> "rejected", error |-> error, started |-> FALSE]
Converting == [state |-> "pending", started |-> TRUE]

\* the entry returned for a request without markdown
MissingOutput(request) ==
    [error |-> "Missing required field: output", status |-> Num(400),
     request |-> [request EXCEPT !.output = Undefined]]

\* the entry returned for a header that is no bearer token
InvalidAuthorization ==
    [error |-> "Missing or invalid authorization header", status |-> Num(401)]

\* the entry returned from the catch block around the conversion
ConversionFailed(error) ==
    [error |-> "Failed to convert markdown to Google Doc",
     details |-> error.message, status |-> StatusOr(error.status, Num(500))]

\* the entry returned after the conversion
Converted(result) == [doc |-> result.documentId, status |-> result.status]

\* the response of the outer catch block
FatalError(error) ==
    [status |-> Num(500),
     body |-> [error |-> "Failed to process requests", details |-> error.message]]

\* request.output: reading a property of null throws a TypeError
ReadOutput(request) ==
    IF request.kind = "object" THEN request.output
    ELSE [kind |-> "thrown", message |-> "TypeError"]

\* the async function of requests.map run from its start to its first await
\* or its return
Callback(request, authHeader) ==
    LET markdownContent == ReadOutput(request)
    IN  IF markdownContent.kind = "thrown"
        THEN Rejected([message |-> markdownContent.message, status |-> Undefined])
        ELSE IF Falsy(markdownContent) THEN Fulfilled(MissingOutput(request))
        ELSE IF Falsy(authHeader) \/ ~StartsWith(authHeader.chars, Bearer)
             THEN Fulfilled(InvalidAuthorization)
        ELSE Converting

\* every way convertMarkdownToGoogleDoc can settle: the document, an error
\* without a status (encoder, empty buffer), an error with the status of the
\* Drive API
ConversionOutcomes ==
    { [kind |-> "resolved", result |-> [documentId |-> "id", status |-> Num(200)]],
      [kind |-> "thrown", error |-> [message |-> "EncoderError", status |-> Undefined]],
      [kind |-> "thrown", error |-> [message |-> "DriveError", status |-> Num(403)]] }

\* the rest of the async function once the awaited conversion has settled
AfterConversion(outcome) ==
    [state |-> "fulfilled", started |-> TRUE, settled |-> outcome,
     value |-> IF outcome.kind = "resolved" THEN Converted(outcome.result)
               ELSE ConversionFailed(outcome.error)]

InitHandler ==
    /\ pc = "handler"
    /\ req \in [method : Methods, body : Bodies(MaxRequests), authorization : AuthHeaders]
    /\ results = <<>> /\ res = NotSent
    /\ tokens = <<>> /\ pos = 1 /\ children = <<>>
    /\ lastTokenType = "null" /\ consecutiveBreaks = 0
    /\ imageData = NoImage /\ inflight = {} /\ fetchLog = <<>>
    /\ imageType = "none" /\ response = NoResponse
    /\ text = <<>> /\ runs = <<>> /\ listToken = NoList
    /\ calls = <<>>
    /\ docxBuffer = Pending

\* the handler up to await Promise.all(...): the status page, the refusal of
\* another method, or the map over the requests
HandleRequest ==
    /\ pc = "handler"
    /\ IF req.method = "GET"
       THEN /\ res' = [status |-> Num(200), body |-> [html |-> "Docify API"]]
            /\ pc' = "sent"
            /\ UNCHANGED results
       ELSE IF req.method # "POST"
       THEN /\ res' = [status |-> Num(405), body |-> [error |-> "Method not allowed"]]
            /\ pc' = "sent"
            /\ UNCHANGED results
       ELSE /\ results' = [i \in 1..Len(RequestsOf(req.body)) |->
                             Callback(RequestsOf(req.body)[i], req.authorization)]
            /\ pc' = "await_all"
            /\ UNCHANGED res
    /\ UNCHANGED <<tokens, pos, children, lastTokenType, consecutiveBreaks,
                   imageData, inflight, fetchLog, imageType, response, text, runs,
                   listToken, calls, docxBuffer, req>>

\* the conversion of request i settles and its async function returns; the
\* conversion goes on after the handler has answered
ConversionSettles(i) ==
    /\ pc \in {"await_all", "sent"}
    /\ results[i].state = "pending"
    /\ \E outcome \in ConversionOutcomes :
         results' = [results EXCEPT ![i] = AfterConversion(outcome)]
    /\ UNCHANGED <<pc, tokens, pos, children, lastTokenType, consecutiveBreaks,
                   imageData, inflight, fetchLog, imageType, response, text, runs,
                   listToken, calls, docxBuffer, req, res>>

\* the least index of a rejected promise, 0 when there is none
FirstRejected(promises) ==
    LeastOrZero({i \in DOMAIN promises : promises[i].state = "rejected"})

\* await Promise.all(...) settles and the handler sends the response: the
\* outer catch block for a rejection, the one result with its own status, or
\* the array of results
Respond ==
    /\ pc = "await_all"
    /\ \/ FirstRejected(results) # 0
       \/ \A i \in DOMAIN results : results[i].state = "fulfilled"
    /\ res' = IF FirstRejected(results) # 0
              THEN FatalError(results[FirstRejected(results)].error)
              ELSE IF Len(results) = 1
              THEN [status |-> results[1].value.status, body |-> results[1].value]
              ELSE [status |-> Num(200),
                    body |-> Arr([i \in DOMAIN results |-> results[i].value])]
    /\ pc' = "sent"
    /\ UNCHANGED <<tokens, pos, children, lastTokenType, consecutiveBreaks,
                   imageData, inflight, fetchLog, imageType, response, text, runs,
                   listToken, calls, docxBuffer, req, results>>

NextHandler ==
    \/ HandleRequest
    \/ \E i \in DOMAIN results : ConversionSettles(i)
    \/ Respond

SpecHandler == InitHandler /\ [][NextHandler]_vars

(***************************************************************************)
(* Properties of the token loop (specification Spec).                      *)
(***************************************************************************)
BlockIndices == DOMAIN children
Processed(i) == i \in 1..Len(tokens) /\ i < pos
BlocksOf(i) == {n \in BlockIndices : children[n].src = i}

\* C1: blocks are emitted strictly in token order: whenever a block comes
\* before another in the output list, its token does not come after the token
\* of the other, also when a token in between suspended the pass on a fetch;
\* and no block belongs to a token the loop has not reached.
BlocksInTokenOrder ==
    /\ \A m, n \in BlockIndices : m < n => children[m].src <= children[n].src
    /\ \A n \in BlockIndices : children[n].src \in 1..Len(tokens) /\ children[n].src <= pos

\* C1 witness: a finished pass of three tokens whose middle token is an image
\* that was fetched, with blocks of all three tokens in the list
WitnessTokenOrder ==
    /\ pc = "done"
    /\ Len(tokens) = 3
    /\ IsImageToken(tokens[2])
    /\ Len(fetchLog) = 1
    /\ \A i \in 1..3 : BlocksOf(i) # {}

SpacersIn(i, j) ==
    {n \in BlockIndices : children[n].kind = "Spacer" /\ children[n].src \in i..j}

\* C2: a run of consecutive space tokens contributes at most one Spacer; a
\* space token that pushed a Spacer leaves the counter at most 1; after any
\* token that is not a space token, whatever its kind, the counter is 0.
SpacerOncePerRun ==
    /\ \A i, j \in 1..Len(tokens) :
         (i <= j /\ \A k \in i..j : tokens[k].type = "space")
            => Cardinality(SpacersIn(i, j)) <= 1
    /\ (pos > 1 /\ SpacersIn(pos - 1, pos - 1) # {}) => consecutiveBreaks <= 1
    /\ (pos > 1 /\ tokens[pos - 1].type # "space") => consecutiveBreaks = 0
    /\ pc \in {"await_fetch", "await_body", "await_image"} => consecutiveBreaks = 0

\* C2 witness: a heading and a run of two space tokens were processed and
\* one Spacer was pushed
WitnessSpacerRun ==
    /\ Len(tokens) = 3 /\ pos = 4
    /\ tokens[1].type = "heading"
    /\ tokens[2].type = "space" /\ tokens[3].type = "space"
    /\ Cardinality(SpacersIn(2, 3)) = 1
    /\ consecutiveBreaks = 1

\* C3: image resolutions are awaited one at a time in token order: at most
\* one fetch is in flight, it belongs to the token the loop is suspended at,
\* every earlier image token already has its blocks in the list, and no block
\* of the suspended token or of a later one is in the list.
SequentialFetches ==
    /\ Cardinality(inflight) <= 1
    /\ \A q \in inflight :
         /\ pc \in {"await_fetch", "await_body"}
         /\ q.tok = pos
         /\ \A i \in 1..(q.tok - 1) : IsImageToken(tokens[i]) => BlocksOf(i) # {}
         /\ \A n \in BlockIndices : children[n].src < q.tok
    /\ pc \in {"await_fetch", "await_body", "await_image"}
         => \A n \in BlockIndices : children[n].src < pos

\* C3 witness: the fetch of a second image token is in flight after the first
\* image token was fetched and its blocks were appended
WitnessSecondFetch ==
    /\ pc = "await_fetch"
    /\ pos = 2
    /\ Len(fetchLog) = 2
    /\ IsImageToken(tokens[1])
    /\ BlocksOf(1) # {}
    /\ Cardinality(inflight) = 1

\* a failure of the fetch: network exception, non-successful response, SVG
\* content type, exception while the body is read
FetchFailed(r) ==
    \/ r.kind = "rejected"
    \/ r.kind = "response" /\ ~r.ok
    \/ r.kind = "response" /\ r.ok /\ Includes(r.contentType, Svg)
    \/ r.kind = "response" /\ r.ok /\ r.body = "rejected"

\* C4: fetchImage never raises: it settles with an image or with null, no
\* rejection ever reaches the loop, and after every failure of the fetch it
\* has settled with null.
ResolverNeverRaises ==
    /\ imageData.kind \in {"null", "image"}
    /\ pc = "await_image" =>
         /\ FetchFailed(response) => imageData = NoImage
         /\ imageData.kind = "image" =>
              (response.kind = "response" /\ response.ok /\ response.body = "bytes")

\* C4 witness: the body read threw after a successful response, and the
\* resolver settled with null
WitnessBodyReadFails ==
    /\ pc = "await_image"
    /\ response.kind = "response"
    /\ response.ok
    /\ response.body = "rejected"
    /\ imageData = NoImage

HasSvgSuffix(url) == EndsWith(ToLowerCase(url), DotSvg)

\* C5: no URL ending in an SVG suffix is ever handed to fetch(), and for such
\* a URL the resolver settles with null without any response.
SvgNeverFetched ==
    /\ \A k \in DOMAIN fetchLog : ~HasSvgSuffix(fetchLog[k])
    /\ \A q \in inflight : ~HasSvgSuffix(q.url)
    /\ (pc = "await_image" /\ HasSvgSuffix(ImageUrl(tokens[pos])))
         => (imageData = NoImage /\ response = NoResponse)

\* C5 witness: the resolver has settled for a URL with an upper-case SVG
\* suffix and nothing was fetched
WitnessSvgSkipped ==
    /\ pc = "await_image"
    /\ EndsWith(ImageUrl(tokens[pos]), <<".", "S", "V", "G">>)
    /\ fetchLog = <<>>
    /\ imageData = NoImage

\* the loop has just resumed from an image token that resolved to null
ResumedNotEmbeddable ==
    /\ pc = "loop" /\ pos > 1
    /\ IsImageToken(tokens[pos - 1])
    /\ imageData = NoImage

\* the fallback block of token i with link text shown
IsFallbackOf(b, i, shown) ==
    /\ b.kind = "ImageFallback"
    /\ b.src = i
    /\ Len(b.spans) = 3
    /\ b.spans[2] = Span("Hyperlink", shown, ImageUrl(tokens[i]))
    /\ b.spans[3] = PlainText(<<" (could not embed)">>)

\* C6 as stated: whenever the resolver returned null the loop resumes with
\* one ImageFallback block whose hyperlink links to the original URL and
\* shows the original alt text, followed by the could-not-embed marker.
FallbackShowsAltText ==
    ResumedNotEmbeddable =>
        /\ Cardinality(BlocksOf(pos - 1)) = 1
        /\ IsFallbackOf(children[Len(children)], pos - 1, ImageAlt(tokens[pos - 1]))

\* C6 amended: as above, but the hyperlink shows the original alt text when it
\* is not empty and the placeholder "Image" when it is empty.
FallbackShowsAltOrPlaceholder ==
    ResumedNotEmbeddable =>
        /\ Cardinality(BlocksOf(pos - 1)) = 1
        /\ IsFallbackOf(children[Len(children)], pos - 1,
                        IF ImageAlt(tokens[pos - 1]) # <<>>
                        THEN ImageAlt(tokens[pos - 1]) ELSE <<"Image">>)

\* C6 witness: the loop resumed from a paragraph that is one image reference
\* with alt text, whose fetch failed
WitnessFallback ==
    /\ ResumedNotEmbeddable
    /\ tokens[pos - 1].type = "paragraph"
    /\ ImageAlt(tokens[pos - 1]) = <<"a">>
    /\ children[Len(children)].kind = "ImageFallback"

HandledKinds ==
    {"heading", "paragraph", "list", "blockquote", "code", "hr", "table", "space",
     "image"}

\* kinds whose case always pushes at least one block
BlockKinds == {"heading", "paragraph", "code", "hr", "table", "image"}

\* C7: a token whose kind has no handler pushes no block of any kind, and the
\* pass goes on: when the pass is done every token of a block-producing kind
\* has its blocks, also after an unhandled token.
UnknownKindSkipped ==
    /\ \A n \in BlockIndices : tokens[children[n].src].type \in HandledKinds
    /\ \A i \in 1..Len(tokens) :
         (Processed(i) /\ tokens[i].type \in BlockKinds) => BlocksOf(i) # {}

\* C7 witness: a finished pass whose first token is unhandled and whose
\* second token has its block
WitnessUnknownSkipped ==
    /\ pc = "done"
    /\ Len(tokens) = 2
    /\ tokens[1].type = "html"
    /\ tokens[2].type = "heading"
    /\ Len(children) = 1
    /\ children[1].src = 2

(***************************************************************************)
(* Properties of processListItems (specification SpecList).                *)
(***************************************************************************)
RECURSIVE ItemAt(_, _)
\* the item a path names
ItemAt(items, path) ==
    IF Len(path) = 1 THEN items[path[1]]
    ELSE ItemAt(items[path[1]].tokens[path[2]].items, SubSeq(path, 3, Len(path)))

RECURSIVE ListAt(_, _)
\* the list token that holds the item a path names
ListAt(list, path) ==
    IF Len(path) = 1 THEN list
    ELSE ListAt(list.items[path[1]].tokens[path[2]], SubSeq(path, 3, Len(path)))

Last(path) == path[Len(path)]

\* C8: numbering is never inherited: every call, nested ones included, counts
\* its items from 1, so the block of item k of any list was pushed with
\* itemNum = k whatever the index of the parent item.
NestedNumberingRestarts ==
    pc = "list_done" =>
        \A n \in BlockIndices :
            /\ children[n].itemNum = Last(children[n].path)
            /\ children[n].ordered = ListAt(listToken, children[n].path).ordered

\* C8 witness: an ordered list nested in the second item of an ordered list,
\* its first block pushed with number 1
WitnessNestedOrdered ==
    /\ pc = "list_done"
    /\ listToken.ordered
    /\ \E n \in BlockIndices :
         /\ children[n].level = 1
         /\ children[n].ordered
         /\ children[n].path[1] = 2
         /\ Last(children[n].path) = 1
         /\ children[n].itemNum = 1

GlyphOf(item) == PlainText(IF item.checked THEN CheckedGlyph ELSE UncheckedGlyph)

\* C9: the spans of the block of an item with a task flag are one glyph span
\* (checked or unchecked as the item is) followed by exactly the spans of
\* processFormattedText(item.text); without a task flag they are exactly the
\* spans of processFormattedText(item.text).
TaskGlyphFirst ==
    pc = "list_done" =>
        \A n \in BlockIndices :
            LET item == ItemAt(listToken.items, children[n].path)
                parsed == processFormattedText(item.text)
            IN  IF item.task
                THEN /\ Len(children[n].spans) = Len(parsed) + 1
                     /\ children[n].spans[1] = GlyphOf(item)
                     /\ SubSeq(children[n].spans, 2, Len(parsed) + 1) = parsed
                ELSE children[n].spans = parsed

\* C9 witness: the block of "[x] Done": checked glyph, then PlainText("Done")
WitnessCheckedDone ==
    /\ pc = "list_done"
    /\ \E n \in BlockIndices :
         children[n].spans = << PlainText(CheckedGlyph),
                                PlainText(<<"D", "o", "n", "e">>) >>

(***************************************************************************)
(* Properties of processFormattedText (specification SpecText).            *)
(***************************************************************************)
\* C10: for every text the parser returns at least one span, and when the
\* pattern matches nowhere the result is the single PlainText span holding
\* the whole text.
ParserNeverEmpty ==
    pc = "text_done" =>
        /\ Len(runs) >= 1
        /\ Exec(text, 1) = NoMatch => runs = << PlainText(text) >>

\* C10 witness: a text made only of marker characters on which nothing
\* matches comes back as one PlainText span
WitnessMarkersOnly ==
    /\ pc = "text_done"
    /\ text = <<"~", "*", Backtick>>
    /\ runs = << PlainText(text) >>

MatcherKind == <<"Hyperlink", "Strikethrough", "Bold", "Italic", "InlineCode">>

\* the matchers that match at position i, as numbers in priority order; the
\* italic matcher is a *...* that is not **
MatchersAt(s, i) ==
    {k \in 1..5 : /\ Alternatives(s, i)[k] # NoMatch
                  /\ (k = 4 => Alternatives(s, i)[k].part # <<"*", "*">>)}

\* what the claim fixes of a span: its kind, and its text when it is plain
Outline(kind, txt) == [kind |-> kind, text |-> IF kind = "PlainText" THEN txt ELSE <<>>]

PlainOutline(s, from, to) ==
    IF from <= to THEN << Outline("PlainText", SubSeq(s, from, to)) >> ELSE <<>>

RECURSIVE PriorityOutline(_, _)

\* the spans from cursor on when matcher k at position i is the selected one
\* (i = 0: no matcher matches at or after the cursor)
PriorityTurn(s, cursor, i, k) ==
    IF i = 0 THEN PlainOutline(s, cursor + 1, Len(s))
    ELSE PlainOutline(s, cursor + 1, i - 1)
         \o << Outline(MatcherKind[k], <<>>) >>
         \o PriorityOutline(s, i - 1 + Len(Alternatives(s, i)[k].part))

PriorityStart(s, cursor, i) == PriorityTurn(s, cursor, i, LeastOrZero(MatchersAt(s, i)))

\* earliest start among all matchers, highest priority at that start
PriorityOutline(s, cursor) ==
    PriorityStart(s, cursor,
                  LeastOrZero({i \in (cursor + 1)..Len(s) : MatchersAt(s, i) # {}}))

WholeIfNone(s, outline) ==
    IF outline = <<>> THEN << Outline("PlainText", s) >> ELSE outline

\* C11 as stated: from every cursor the parser selects the match with the
\* earliest start among all matchers and, at the same start, the matcher of
\* highest priority (hyperlink, strikethrough, bold, italic that is not **,
\* inline code); the emitted span has the kind of the selected matcher and the
\* text between the cursor and the match is a PlainText span.
SelectsEarliestByPriority ==
    pc = "text_done" =>
        [n \in DOMAIN runs |-> Outline(runs[n].kind, runs[n].text)]
            = WholeIfNone(text, PriorityOutline(text, 0))

\* the width of the opening and of the closing delimiter of alternatives 2 to 5
DelimiterWidth == <<0, 2, 2, 1, 1>>

\* the alternative of the pattern that produced the match m
AlternativeOf(s, m) ==
    LeastOrZero({k \in 1..5 : Alternatives(s, m.index)[k] # NoMatch})

\* a match without its marker characters: a link without [ ] ( ), any other
\* match without its opening and closing delimiter
Unmarked(m, k) ==
    IF k = 1 THEN m.g2 \o m.g3
    ELSE SubSeq(m.part, DelimiterWidth[k] + 1, Len(m.part) - DelimiterWidth[k])

RECURSIVE WithoutMarkers(_, _)

UnmarkedTurn(s, cursor, m) ==
    IF m = NoMatch THEN SubSeq(s, cursor + 1, Len(s))
    ELSE SubSeq(s, cursor + 1, m.index - 1)
         \o Unmarked(m, AlternativeOf(s, m))
         \o WithoutMarkers(s, m.index - 1 + Len(m.part))

\* the text from cursor on with the marker characters of every match removed
WithoutMarkers(s, cursor) == UnmarkedTurn(s, cursor, Exec(s, cursor + 1))

RECURSIVE Concatenated(_, _)
\* the texts of a sequence, from element n on, one after the other
Concatenated(texts, n) ==
    IF n > Len(texts) THEN <<>> ELSE texts[n] \o Concatenated(texts, n + 1)

\* C12 as stated: the literal texts of the returned spans, concatenated in
\* order, are the input with the marker characters removed: nothing else is
\* dropped, duplicated or reordered.
RoundTripOfSpanText ==
    pc = "text_done" =>
        Concatenated([n \in DOMAIN runs |-> runs[n].text], 1) = WithoutMarkers(text, 0)

\* C12 amended: the same with a hyperlink contributing its display text
\* followed by its link target, which is kept in the span beside the text.
RoundTripWithLinkTargets ==
    pc = "text_done" =>
        Concatenated([n \in DOMAIN runs |-> runs[n].text \o runs[n].url], 1)
            = WithoutMarkers(text, 0)

\* C12 witness: "[a](a) *a*" parsed into a hyperlink, a blank and an italic
\* span, four characters of literal text and link target in all
WitnessRoundTrip ==
    /\ pc = "text_done"
    /\ text = <<"[", "a", "]", "(", "a", ")", " ", "*", "a", "*">>
    /\ Len(runs) = 3
    /\ runs[1].kind = "Hyperlink"
    /\ runs[3].kind = "Italic"
    /\ Concatenated([n \in DOMAIN runs |-> runs[n].text \o runs[n].url], 1)
         = <<"a", "a", " ", "a">>

(***************************************************************************)
(* Properties of a batch of conversions (specification SpecBatch).         *)
(***************************************************************************)
RECURSIVE AloneFrom(_, _, _, _)

\* a call run alone that suspended as ran says: it resumes with the next of
\* the given values of fetchImage, as long as there is one
AloneTurn(ran, toks, resolved) ==
    IF ran.pos > Len(toks) \/ resolved = <<>> THEN ran
    ELSE AloneFrom(AfterCase(ran.locals, toks[ran.pos], ran.pos,
                             ImageBlocks(toks[ran.pos], Head(resolved))),
                   toks, ran.pos + 1, Tail(resolved))

\* the locals and the position of a call run alone on toks from token i,
\* fetchImage settling to the values of resolved in turn
AloneFrom(loc, toks, i, resolved) ==
    AloneTurn(RunToAwait(loc, toks, i), toks, resolved)

FreshLocals == [children |-> <<>>, lastTokenType |-> "null", consecutiveBreaks |-> 0]

\* C13: whatever the interleaving of the calls of a batch at their awaits,
\* the block list, the previous kind and the spacer counter of every started
\* call are those of the same call run alone on its own tokens with the same
\* results of fetchImage; in particular the block list of a finished call.
CallsDoNotInterfere ==
    pc = "batch" =>
        \A c \in Calls :
            calls[c].pc # "start" =>
                [locals |-> LocalsOf(calls, c), pos |-> calls[c].pos]
                    = AloneFrom(FreshLocals, calls[c].tokens, 1, calls[c].resolved)

\* C13 witness: both calls suspended on the fetch of an image, then the first
\* one resumed and finished with its heading and image blocks while the
\* second one is still suspended with its heading block
WitnessInterleavedCalls ==
    /\ pc = "batch"
    /\ calls[1].pc = "done"
    /\ calls[2].pc = "await_fetch"
    /\ Len(calls[1].tokens) = 2 /\ Len(calls[2].tokens) = 2
    /\ \A c \in Calls : calls[c].tokens[1].type = "heading" /\ calls[c].pos >= 2
    /\ IsImageToken(calls[1].tokens[2]) /\ IsImageToken(calls[2].tokens[2])
    /\ Len(calls[1].children) = 3
    /\ calls[1].children[2].kind = "EmbeddedImage"
    /\ Len(calls[2].children) = 1
    /\ \E q \in inflight : q.call = 2 /\ q.id = 2

(***************************************************************************)
(* Properties of the end of a conversion (specification Spec).             *)
(***************************************************************************)
\* C14: no failure of a single construct aborts the pass: while tokens remain
\* nothing has been thrown, and the call fails only after the last token, by
\* a rejection of the encoder; the caller is then given the error of the
\* encoder itself and no buffer.  The caller fails only on that error or on
\* an empty buffer from the encoder, and uploads only a buffer.
OnlyEncoderFailureIsFatal ==
    /\ pc \in {"loop", "await_fetch", "await_body", "await_image"}
         => docxBuffer = Pending
    /\ pc = "failed" => (pos > Len(tokens) /\ docxBuffer = Thrown("EncoderError"))
    /\ pc = "done" => (pos > Len(tokens) /\ docxBuffer.kind = "buffer")
    /\ pc = "caller_failed"
         => docxBuffer \in {Thrown("EncoderError"), Thrown("EmptyBufferError")}
    /\ pc = "caller_upload" => (docxBuffer.kind = "buffer" /\ docxBuffer.length > 0)

\* C14 witness: an unhandled token, an image that fell back and a heading
\* were all processed, then the encoder rejected and the caller was given
\* the error of the encoder
WitnessEncoderFailure ==
    /\ pc = "caller_failed"
    /\ docxBuffer = Thrown("EncoderError")
    /\ Len(tokens) = 3
    /\ tokens[1].type = "html"
    /\ IsImageToken(tokens[2])
    /\ tokens[3].type = "heading"
    /\ Len(children) = 2
    /\ children[1].kind = "ImageFallback"
    /\ children[2].kind = "Heading"

(***************************************************************************)
(* Properties of the blocks of one token (specification Spec).             *)
(***************************************************************************)
\* C15 as stated: every heading, paragraph, code, horizontal-rule, table and
\* image token that was processed, a paragraph handled as an image included,
\* has exactly one block in the list.
OneBlockPerConstruct ==
    \A i \in 1..Len(tokens) :
        (Processed(i) /\ tokens[i].type \in BlockKinds)
            => Cardinality(BlocksOf(i)) = 1

\* token i was embedded and has alt text
EmbeddedWithAlt(i) ==
    /\ IsImageToken(tokens[i])
    /\ ImageAlt(tokens[i]) # <<>>
    /\ \E n \in BlocksOf(i) : children[n].kind = "EmbeddedImage"

\* C15 amended: every such token has exactly one block, except an image that
\* was embedded and has alt text, which has two: the image block and right
\* after it a caption block showing the alt text.
OneBlockOrImageWithCaption ==
    \A i \in 1..Len(tokens) :
        (Processed(i) /\ tokens[i].type \in BlockKinds) =>
            IF EmbeddedWithAlt(i)
            THEN /\ Cardinality(BlocksOf(i)) = 2
                 /\ \E n \in BlocksOf(i) :
                      /\ n + 1 \in BlocksOf(i)
                      /\ children[n].kind = "EmbeddedImage"
                      /\ children[n + 1].kind = "Caption"
                      /\ children[n + 1].spans
                           = << Span("Caption", ImageAlt(tokens[i]), <<>>) >>
            ELSE Cardinality(BlocksOf(i)) = 1

\* C15 witness: the loop resumed from an image token with alt text that was
\* embedded: its image block and its caption are the last two blocks
WitnessImageWithCaption ==
    /\ pc = "loop" /\ pos > 1
    /\ tokens[pos - 1].type = "image"
    /\ ImageAlt(tokens[pos - 1]) = <<"a">>
    /\ Cardinality(BlocksOf(pos - 1)) = 2
    /\ children[Len(children) - 1].kind = "EmbeddedImage"
    /\ children[Len(children)].kind = "Caption"

(***************************************************************************)
(* Properties of the order of list blocks (specification SpecList).        *)
(***************************************************************************)
\* the sub-tokens of an item that are lists
NestedListsOf(item) == {j \in DOMAIN item.tokens : item.tokens[j].type = "list"}

RECURSIVE PathsOf(_, _)
\* the paths of all items of a list token, at every depth
PathsOf(list, prefix) ==
    UNION { {prefix \o <<k>>} \cup
            UNION { PathsOf(list.items[k].tokens[j], prefix \o <<k, j>>) :
                    j \in NestedListsOf(list.items[k]) } :
            k \in DOMAIN list.items }

\* path p comes before path q in depth-first pre-order: p is a proper prefix
\* of q, or p is smaller at the first place where they differ
Before(p, q) ==
    \E k \in 1..Len(q) :
        /\ \A i \in 1..(k - 1) : i <= Len(p) /\ p[i] = q[i]
        /\ IF k > Len(p) THEN k = Len(p) + 1 ELSE p[k] < q[k]

\* the depth of the list that holds the item at path p, the top list being 0
DepthOf(p) == (Len(p) - 1) \div 2

\* C16: the blocks are the items of the list token in depth-first pre-order:
\* one block per item at any depth, blocks ordered as their items are in
\* pre-order, the first item of a nested list right after the block of the
\* item that holds it, and level equal to the depth of the item (that of its
\* parent plus one, 0 at the top).
DepthFirstPreOrder ==
    pc = "list_done" =>
        /\ Len(children) = Cardinality(PathsOf(listToken, <<>>))
        /\ {children[n].path : n \in BlockIndices} = PathsOf(listToken, <<>>)
        /\ \A m, n \in BlockIndices :
             m < n => Before(children[m].path, children[n].path)
        /\ \A n \in BlockIndices :
             /\ children[n].kind = "ListItem"
             /\ children[n].level = DepthOf(children[n].path)
             /\ \A j \in NestedListsOf(ItemAt(listToken.items, children[n].path)) :
                  /\ n + 1 \in BlockIndices
                  /\ children[n + 1].path = children[n].path \o <<j, 1>>
                  /\ children[n + 1].level = children[n].level + 1

\* C16 witness: the first item holds a nested list of two items and has a
\* sibling: the nested blocks at level 1 come between the two top blocks
WitnessNestedBeforeSibling ==
    /\ pc = "list_done"
    /\ Len(children) = 4
    /\ children[1].path = <<1>> /\ children[1].level = 0
    /\ children[2].path = <<1, 2, 1>> /\ children[2].level = 1
    /\ children[3].path = <<1, 2, 2>> /\ children[3].level = 1
    /\ children[4].path = <<2>> /\ children[4].level = 0

(***************************************************************************)
(* Properties of detectImageType (specification SpecImageType).            *)
(***************************************************************************)
\* the format the suffix of the URL names, "none" when it names none
SuffixType(url) ==
    IF EndsWith(ToLowerCase(url), DotPng) THEN "png"
    ELSE IF EndsWith(ToLowerCase(url), DotJpg) \/ EndsWith(ToLowerCase(url), DotJpeg)
    THEN "jpg"
    ELSE IF EndsWith(ToLowerCase(url), DotGif) THEN "gif"
    ELSE IF EndsWith(ToLowerCase(url), DotBmp) THEN "bmp"
    ELSE "none"

\* the format the content-type header names, "none" when it names none
HeaderType(contentType) ==
    IF Includes(ToLowerCase(contentType), ImageSlash \o <<"p", "n", "g">>) THEN "png"
    ELSE IF \/ Includes(ToLowerCase(contentType), ImageSlash \o <<"j", "p", "e", "g">>)
            \/ Includes(ToLowerCase(contentType), ImageSlash \o <<"j", "p", "g">>)
    THEN "jpg"
    ELSE IF Includes(ToLowerCase(contentType), ImageSlash \o <<"g", "i", "f">>) THEN "gif"
    ELSE IF Includes(ToLowerCase(contentType), ImageSlash \o <<"b", "m", "p">>) THEN "bmp"
    ELSE "none"

\* suffix first, then header, then PNG
SuffixThenHeader(suffix, header) ==
    IF suffix # "none" THEN suffix ELSE IF header # "none" THEN header ELSE "png"

\* C17 as stated: the format is the one the suffix of the URL names; only
\* when the suffix names none, the one the content-type header names; and
\* PNG when neither names one.  It is always one of png, jpg, gif, bmp.
SuffixDecidesFirst ==
    pc = "type_done" =>
        /\ imageType \in {"png", "jpg", "gif", "bmp"}
        /\ imageType = SuffixThenHeader(SuffixType(ImageUrl(tokens[1])),
                                        HeaderType(response.contentType))

(***************************************************************************)
(* Properties of case paragraph (specification SpecParagraph).             *)
(***************************************************************************)
\* the "]" that would end the alt text of s read as ![alt](url)
RefCloses(s) ==
    { c \in 3..Len(s) :
        /\ s[1] = "!" /\ s[2] = "["
        /\ s[c] = "]"
        /\ \A k \in 3..(c - 1) : s[k] # "]"
        /\ c + 3 <= Len(s)
        /\ s[c + 1] = "("
        /\ s[Len(s)] = ")"
        /\ \A k \in (c + 2)..(Len(s) - 1) : s[k] # ")" }

\* the entire text is one image reference ![alt](url) and nothing else
IsOneImageReference(s) == RefCloses(s) # {}

RefUrl(s) == SubSeq(s, LeastOrZero(RefCloses(s)) + 2, Len(s) - 1)

ImageKinds == {"EmbeddedImage", "Caption", "ImageFallback"}

\* C18: a paragraph token suspends the loop on the resolver, and its blocks
\* are image blocks (embedded or fallback) and no text paragraph, exactly
\* when its entire text is one image reference; for any other text the loop
\* never awaits, nothing is fetched, and the one block of the token is the
\* paragraph of the spans the parser returns for the whole text.
ParagraphImageExactly ==
    /\ \A i \in 1..Len(tokens) :
         (tokens[i].type = "paragraph" /\ Processed(i)) =>
            IF IsOneImageReference(tokens[i].text)
            THEN /\ BlocksOf(i) # {}
                 /\ \A n \in BlocksOf(i) : children[n].kind \in ImageKinds
            ELSE /\ Cardinality(BlocksOf(i)) = 1
                 /\ \A n \in BlocksOf(i) :
                      /\ children[n].kind = "Paragraph"
                      /\ children[n].spans = processFormattedText(tokens[i].text)
    /\ (pc \in {"await_fetch", "await_body", "await_image"}
          /\ tokens[pos].type = "paragraph")
         => IsOneImageReference(tokens[pos].text)
    /\ \A q \in inflight :
         tokens[q.tok].type = "paragraph" =>
            (IsOneImageReference(tokens[q.tok].text) /\ q.url = RefUrl(tokens[q.tok].text))
    /\ (\A i \in 1..Len(tokens) :
            tokens[i].type = "paragraph" /\ ~IsOneImageReference(tokens[i].text))
         => fetchLog = <<>>

\* C18 witness: the paragraph "![](a)" was handled as an image: one fetch,
\* and the fallback block in place of a text paragraph
WitnessParagraphAsImage ==
    /\ pc = "loop" /\ pos = 2
    /\ tokens[1] = ParagraphTok(<<"!", "[", "]", "(", "a", ")">>)
    /\ fetchLog = << <<"a">> >>
    /\ Len(children) = 1
    /\ children[1].kind = "ImageFallback"

(***************************************************************************)
(* Properties of the spacing heuristic (specification Spec).               *)
(***************************************************************************)
\* the iteration of token i has pushed what it pushes before its case
Reached(i) == i < pos \/ (i = pos /\ pc \in {"await_fetch", "await_body", "await_image"})

\* C19: the counter is 0 or 1 in every state, so the test counter <= 1 never
\* keeps a Spacer back: a token has a Spacer, and then exactly one, exactly
\* when it is a space token that comes right after a token of another kind;
\* a space token that is the first of the stream has none.
CounterIsZeroOrOne ==
    /\ consecutiveBreaks \in {0, 1}
    /\ \A i \in 1..Len(tokens) :
         Reached(i) =>
            /\ Cardinality(SpacersIn(i, i)) <= 1
            /\ SpacersIn(i, i) # {}
                 <=> (tokens[i].type = "space" /\ i > 1 /\ tokens[i - 1].type # "space")

\* C19 witness: space, heading, space: the first space token has no Spacer,
\* the last one has one and leaves the counter at 1
WitnessFirstSpaceSilent ==
    /\ Len(tokens) = 3 /\ pos = 4
    /\ tokens[1].type = "space"
    /\ tokens[2].type = "heading"
    /\ tokens[3].type = "space"
    /\ SpacersIn(1, 1) = {}
    /\ Cardinality(SpacersIn(3, 3)) = 1
    /\ consecutiveBreaks = 1

(***************************************************************************)
(* Properties of the numbering of list blocks (specification SpecList).    *)
(***************************************************************************)
\* the levels of the numbering configuration 'default-numbering' of the
\* Document: decimal, lowerLetter, lowerRoman
NumberingLevels == {0, 1, 2}

\* C20: every ordered list block references a level that the numbering
\* configuration of the Document defines, however deep the list is nested.
OrderedLevelsDefined ==
    pc = "list_done" =>
        \A n \in BlockIndices :
            children[n].ordered => children[n].level \in NumberingLevels

(***************************************************************************)
(* Properties of the handler (specification SpecHandler).                  *)
(***************************************************************************)
\* the results the response carries: the elements of the array, or the one
\* object sent for a body of one request
ResultsSent ==
    IF "kind" \in DOMAIN res.body /\ res.body.kind = "array"
    THEN res.body.items ELSE <<res.body>>

LacksOutput(request) == request.kind # "object" \/ Falsy(request.output)

LacksBearer(header) == Falsy(header) \/ ~StartsWith(header.chars, Bearer)

IsErrorEntry(entry, status) ==
    /\ "error" \in DOMAIN entry
    /\ "status" \in DOMAIN entry
    /\ entry.status = status

\* what the claim lets result i be, given request i, the header and the way
\* the conversion of request i settled
ResultBelongsTo(i, request, header) ==
    IF LacksOutput(request)
    THEN IsErrorEntry(ResultsSent[i], Num(400)) /\ ~results[i].started
    ELSE IF LacksBearer(header)
    THEN IsErrorEntry(ResultsSent[i], Num(401)) /\ ~results[i].started
    ELSE /\ results[i].state = "fulfilled"
         /\ results[i].started
         /\ IF results[i].settled.kind = "thrown"
            THEN IsErrorEntry(ResultsSent[i],
                              IF Falsy(results[i].settled.error.status)
                              THEN Num(500) ELSE results[i].settled.error.status)
            ELSE /\ "error" \notin DOMAIN ResultsSent[i]
                 /\ ResultsSent[i].doc = results[i].settled.result.documentId
                 /\ ResultsSent[i].status = Num(200)

\* C21: the answer to a POST of n requests carries exactly n results, result
\* i being that of request i in whatever order the conversions settled: a
\* request without output gives a 400 entry and one with output under a
\* missing or non-Bearer header a 401 entry, neither starting a conversion; a
\* conversion that throws gives an error entry with the status of the error or
\* 500; and each result depends on its own request and conversion only.
OneResultPerRequest ==
    (pc = "sent" /\ req.method = "POST") =>
        /\ Len(ResultsSent) = Len(RequestsOf(req.body))
        /\ \A i \in 1..Len(RequestsOf(req.body)) :
             /\ i \in DOMAIN ResultsSent
             /\ i \in DOMAIN results
             /\ ResultBelongsTo(i, RequestsOf(req.body)[i], req.authorization)

====
